---- MODULE Spec2Model ----
(***************************************************************************)
(* The request pipeline of WebServer/__init__.py: a falcon.API subclass    *)
(* (WebApi) with three middleware components, six routes and two error     *)
(* handlers, over one module-level pooled peewee database handle.          *)
(*                                                                         *)
(* One worker thread serves one request at a time.  The steps of a request *)
(* are those of falcon.API.__call__: the process_request methods in        *)
(* declared order (a component is put on the request's stack once its      *)
(* process_request has returned), routing and the responder, the error     *)
(* handlers when something was raised, and then the process_response       *)
(* methods of the components on the stack, last pushed first.  The         *)
(* database handle keeps its connection state per thread (peewee's         *)
(* thread-local _local), and the pool counts leases over all threads.      *)
(***************************************************************************)
EXTENDS Naturals, Sequences, FiniteSets, TLC

\* Worker threads followed step by step.
NumThreads == 2

\* PooledPostgresqlExtDatabase(None, stale_timeout=300, max_connections=20, ...)
max_connections == 20

Threads == 1..NumThreads

\* Python's None: an absent header, an absent query parameter, no exception.
None == "None"

----------------------------------------------------------------------------
\* Requests

Methods == {"GET", "POST", "DELETE"}

Paths == {"/", "/login", "/logout", "/problems", "/problem", "/competitors",
          "/competitor", "/missing"}

\* Values of the Authorization header as request.get_header returns them.
TokenValues == {None, "", "abc"}

\* Values of the Account-Id header.
AccountValues == {None, "", "1"}

\* Values of the id query parameter (request.params without the key: None).
IdValues == {None, "1", "2"}

\* Values of the Accept header (None: the header is absent).
AcceptValues == {None, "application/xml"}

\* The id parameter is only read by /competitor; other paths carry none.
\* No line of the source reads the Accept header: it varies on GET requests.
Requests ==
    { r \in [method : Methods, path : Paths, Authorization : TokenValues,
             Account_Id : AccountValues, id : IdValues, Accept : AcceptValues] :
        /\ r.path # "/competitor" => r.id = None
        /\ r.method # "GET" => r.Accept = None }

\* The requests of the runs with several workers.
ConcRequests ==
    { r \in Requests :
        /\ r.method = "GET"
        /\ r.Account_Id = None
        /\ r.id = None
        /\ r.Accept = None
        /\ \/ r.path = "/" /\ r.Authorization \in {None, "abc"}
           \/ r.path = "/competitor" /\ r.Authorization = None }

\* The requests of the runs that compare two requests: pairs that differ in
\* one header (Accept, Account-Id) are among them.
PairRequests ==
    { r \in Requests :
        /\ r.method = "GET"
        /\ r.path \in {"/", "/competitor"}
        /\ r.id = None
        /\ r.Authorization \in {None, "abc"}
        /\ r.Account_Id \in {None, "1"} }

NoRequest == [method |-> None, path |-> None, Authorization |-> None,
              Account_Id |-> None, id |-> None, Accept |-> None]

\* request.get_header(name): the header's value, None when it is absent.
get_header(request, name) ==
    IF name = "Authorization" THEN request.Authorization ELSE request.Account_Id

----------------------------------------------------------------------------
\* Response bodies.  A body is a Python value (doc) and the number of times
\* it went through JSON encoding: 0 is the value itself, 1 its JSON text,
\* 2 the JSON text of that text (a quoted, escaped string).

NoDoc == [type |-> "none", text |-> "", description |-> "", href |-> "",
          data |-> <<>>]

StrDoc(s) == [NoDoc EXCEPT !.type = "str", !.text = s]

\* {'Success': True, <key>: <text or data>}
DictDoc(msg, data) == [NoDoc EXCEPT !.type = "dict", !.text = msg, !.data = data]

NoBody == [doc |-> NoDoc, enc |-> 0]

\* json.dumps(body)
json_dumps(body) == [body EXCEPT !.enc = @ + 1]

\* response = falcon.Response(): status '200 OK', no body.
NewResponse == [status |-> 200, body |-> NoBody, content_type |-> None,
                www_authenticate |-> None]

----------------------------------------------------------------------------
\* Exceptions

NoException == [kind |-> None, status |-> 0, title |-> "", description |-> "",
                challenges |-> None, href |-> ""]

HTTPErrorKinds == {"HTTPUnauthorized", "HTTPNotFound", "HTTPMethodNotAllowed",
                   "HTTPInternalServerError"}

\* isinstance(ex, falcon.HTTPError)
IsHTTPError(ex) == ex.kind \in HTTPErrorKinds

\* falcon.HTTPUnauthorized(title, description, challenges, href=...)
HTTPUnauthorized(title, description, challenges, href) ==
    [kind |-> "HTTPUnauthorized", status |-> 401, title |-> title,
     description |-> description, challenges |-> challenges, href |-> href]

\* falcon.HTTPNotFound()
HTTPNotFound == [NoException EXCEPT !.kind = "HTTPNotFound", !.status = 404]

\* falcon.HTTPMethodNotAllowed(allowed_methods)
HTTPMethodNotAllowed ==
    [NoException EXCEPT !.kind = "HTTPMethodNotAllowed", !.status = 405]

\* falcon.HTTPInternalServerError(title, description)
HTTPInternalServerError(title, description) ==
    [NoException EXCEPT !.kind = "HTTPInternalServerError", !.status = 500,
                        !.title = title, !.description = description]

\* An exception that is no falcon.HTTPError, with its message.
PythonError(kind, message) ==
    [NoException EXCEPT !.kind = kind, !.description = message]

\* ex.has_representation: NotFound and MethodNotAllowed carry a body only
\* when given a description.
has_representation(ex) ==
    IF ex.kind \in {"HTTPNotFound", "HTTPMethodNotAllowed"}
    THEN ex.description # ""
    ELSE TRUE

\* ex.to_json(): the JSON text of the error's title, description and link.
to_json(ex) ==
    [doc |-> [type |-> "error", text |-> ex.title, description |-> ex.description,
              href |-> ex.href, data |-> <<>>],
     enc |-> 1]

----------------------------------------------------------------------------
\* Middleware components

Peewee == "PeeweeConnectionMiddleware"
Auth == "AuthMiddleware"
Format == "ResponseFormatMiddleware"

\* The module-level list handed to WebApi(middleware=middleware).
ConfiguredMiddleware == <<Peewee, Auth, Format>>

\* The formatter declared first, the connection component last.
MiddlewareChoices_formatter_first == {<<Format, Auth, Peewee>>, <<Format, Peewee>>}

\* The auth gate declared before the connection component.
MiddlewareChoices_auth_first == {<<Auth, Peewee, Format>>, <<Peewee, Format>>}

\* WebApi.__init__ takes the list as an argument ("allows for flexible
\* defining of middleware"): the configured list, and the same list without
\* the authentication component.
MiddlewareChoices == {ConfiguredMiddleware, <<Peewee, Format>>}

\* A component list in which AuthMiddleware's process_request is not found
\* (a misnamed method).
has_process_request_without_auth(c) == c = Peewee

\* Whether a component class defines process_request / process_response.
has_process_request(c) == c \in {Peewee, Auth}
has_process_response(c) == c \in {Peewee, Format}

\* challenges = ['Token type="Fernet"'], joined into WWW-Authenticate
challenges == "Token type=\"Fernet\""

auth_href == "http://docs.example.com/auth"

\* _token_is_valid with "or" for "and".
token_is_valid_either(token, account_id) == token # None \/ account_id # None

\* AuthMiddleware._token_is_valid
token_is_valid(token, account_id) == token # None /\ account_id # None

\* process_request with the first test the other way round: a missing token
\* is what gets "Auth token required".
AuthMiddleware_process_request_token_missing(request) ==
    LET token == get_header(request, "Authorization")
        account_id == get_header(request, "Account-Id")
    IN  IF token = None
        THEN HTTPUnauthorized("Auth token required",
                              "Please provide an auth token as part of the request.",
                              challenges, auth_href)
        ELSE IF ~(token # None /\ account_id # None)
        THEN HTTPUnauthorized("Authentication required",
                              "The provided auth token is not valid. Please request a new token and try again.",
                              challenges, auth_href)
        ELSE NoException

\* AuthMiddleware.process_request: the exception it raises, NoException when
\* it returns.
AuthMiddleware_process_request(request) ==
    LET token == get_header(request, "Authorization")
        account_id == get_header(request, "Account-Id")
    IN  IF token # None
        THEN HTTPUnauthorized("Auth token required",
                              "Please provide an auth token as part of the request.",
                              challenges, auth_href)
        ELSE IF ~token_is_valid(token, account_id)
        THEN HTTPUnauthorized("Authentication required",
                              "The provided auth token is not valid. Please request a new token and try again.",
                              challenges, auth_href)
        ELSE NoException

\* ResponseFormatMiddleware.process_response
ResponseFormatMiddleware_process_response(response) ==
    [response EXCEPT !.content_type = "application/json; charset=utf-8",
                     !.body = json_dumps(response.body)]

\* An error serializer that negotiates the representation on Accept, as
\* falcon's default serializer does.
error_serialiser_negotiated(request, response, ex) ==
    [response EXCEPT !.body = IF request.Accept = "application/xml"
                               THEN [to_json(ex) EXCEPT !.doc.type = "xml"]
                               ELSE to_json(ex)]

\* error_serialiser(request, response, ex): the request is not read.
error_serialiser(request, response, ex) == [response EXCEPT !.body = to_json(ex)]

----------------------------------------------------------------------------
\* Resources.  A responder returns the exception it raised (NoException when
\* it returned) and the response as it left it.

Returned(response) == [ex |-> NoException, response |-> response]
Raised(response, ex) == [ex |-> ex, response |-> response]

SetBody(response, doc) ==
    [response EXCEPT !.body = [doc |-> doc, enc |-> 0], !.status = 200]

RootResource_on_get(request, response) ==
    Returned(SetBody(response, StrDoc("Hello, World!")))

LoginResource_on_get(request, response) ==
    Returned(SetBody(response, DictDoc("Here is the login page", <<>>)))

LoginResource_on_post(request, response) ==
    Returned(SetBody(response, DictDoc("You have successfully logged in", <<>>)))

LogoutResource_on_get(request, response) ==
    Returned(SetBody(response, DictDoc("You have successfully logged out", <<>>)))

ProblemCollection_on_get(request, response) ==
    Returned(SetBody(response, DictDoc("Problems", <<1, 2, 3>>)))

ProblemResource_on_get(request, response) ==
    Returned(SetBody(response, DictDoc("ProblemName", <<>>)))

ProblemResource_on_post(request, response) ==
    Returned(SetBody(response, DictDoc("You have successfully solved the problem!", <<>>)))

UserCollection_on_get(request, response) ==
    Returned(SetBody(response, DictDoc("Competitors", <<1, 2, 3, 4, 5>>)))

\* request.params['id'] raises KeyError when the query has no id.
UserResource_on_get(request, response) ==
    IF request.id = None
    THEN Raised(response, PythonError("KeyError", "'id'"))
    ELSE IF request.id = "1"
    THEN Returned(SetBody(response, DictDoc("Name", <<100>>)))
    ELSE Returned(SetBody(response, DictDoc("Name2", <<99>>)))

\* The responder methods each resource class defines.
ResourceMethods ==
    [c \in {"RootResource", "LoginResource", "LogoutResource", "ProblemCollection",
            "ProblemResource", "UserCollection", "UserResource"} |->
        IF c \in {"LoginResource", "ProblemResource"} THEN {"GET", "POST"} ELSE {"GET"}]

\* WebApi.register_routes: path -> resource
register_routes ==
    ("/" :> "RootResource") @@ ("/login" :> "LoginResource") @@
    ("/problems" :> "ProblemCollection") @@ ("/problem" :> "ProblemResource") @@
    ("/competitors" :> "UserCollection") @@ ("/competitor" :> "UserResource")

\* A router that falls back to the root resource on a miss.
find_route_fallback(path) ==
    IF path \in DOMAIN register_routes THEN register_routes[path] ELSE "RootResource"

\* The router's exact-path lookup: the resource, None on a miss.
find_route(path) ==
    IF path \in DOMAIN register_routes THEN register_routes[path] ELSE None

on_method(method) == IF method = "GET" THEN "on_get" ELSE "on_post"

\* _get_responder without the method test: a routed request goes to on_get.
get_responder_any_method(method, path) ==
    LET resource == find_route(path)
    IN  IF resource = None THEN "path_not_found"
        ELSE resource \o ".on_get"

\* falcon's _get_responder: the resource's method, the method-not-allowed
\* responder, or the path-not-found responder.
get_responder(method, path) ==
    LET resource == find_route(path)
    IN  IF resource = None THEN "path_not_found"
        ELSE IF method \in ResourceMethods[resource]
        THEN resource \o "." \o on_method(method)
        ELSE "method_not_allowed"

\* The names of the resources' own responders.
ResourceResponders ==
    {"RootResource.on_get", "LoginResource.on_get", "LoginResource.on_post",
     "LogoutResource.on_get", "ProblemCollection.on_get", "ProblemResource.on_get",
     "ProblemResource.on_post", "UserCollection.on_get", "UserResource.on_get"}

\* responder(req, resp)
call_responder(name, request, response) ==
    CASE name = "path_not_found" -> Raised(response, HTTPNotFound)
      [] name = "method_not_allowed" -> Raised(response, HTTPMethodNotAllowed)
      [] name = "RootResource.on_get" -> RootResource_on_get(request, response)
      [] name = "LoginResource.on_get" -> LoginResource_on_get(request, response)
      [] name = "LoginResource.on_post" -> LoginResource_on_post(request, response)
      [] name = "LogoutResource.on_get" -> LogoutResource_on_get(request, response)
      [] name = "ProblemCollection.on_get" -> ProblemCollection_on_get(request, response)
      [] name = "ProblemResource.on_get" -> ProblemResource_on_get(request, response)
      [] name = "ProblemResource.on_post" -> ProblemResource_on_post(request, response)
      [] name = "UserCollection.on_get" -> UserCollection_on_get(request, response)
      [] name = "UserResource.on_get" -> UserResource_on_get(request, response)

----------------------------------------------------------------------------
\* Error handlers

\* handle without its isinstance test: every exception is masked.
CatchAllHandler_handle_mask_all(ex) ==
    HTTPInternalServerError("Internal server error.",
        "An internal error occurred. If this problem persists, please contact us.")

\* CatchAllHandler.handle: the exception it raises.
CatchAllHandler_handle(ex) ==
    IF IsHTTPError(ex)
    THEN ex
    ELSE HTTPInternalServerError("Internal server error.",
             "An internal error occurred. If this problem persists, please contact us.")

\* DoesNotExistHandler.handle: the exception it raises.
DoesNotExistHandler_handle(ex) == HTTPNotFound

\* isinstance(ex, err_type) for the two registered types.
isinstance(ex, err_type) ==
    IF err_type = "Exception" THEN TRUE ELSE ex.kind = err_type

\* add_error_handler keeping registration order: the new handler goes last.
add_error_handler_append(handlers, err_type, handler) ==
    handlers \o <<[err_type |-> err_type, handler |-> handler]>>

\* falcon's add_error_handler puts the new handler first in the lookup list.
add_error_handler(handlers, err_type, handler) ==
    <<[err_type |-> err_type, handler |-> handler]>> \o handlers

\* WebApi.register_error_handlers
register_error_handlers ==
    add_error_handler(
        add_error_handler(<<>>, "Exception", "CatchAllHandler.handle"),
        "DoesNotExist", "DoesNotExistHandler.handle")

\* The first registered handler whose type matches the exception.
RECURSIVE find_error_handler(_, _)
find_error_handler(handlers, ex) ==
    IF handlers = <<>> THEN None
    ELSE IF isinstance(ex, Head(handlers).err_type) THEN Head(handlers).handler
    ELSE find_error_handler(Tail(handlers), ex)

\* The exception that leaves the error-handling step for ex.
handle_exception(ex) ==
    LET h == find_error_handler(register_error_handlers, ex)
    IN  CASE h = "CatchAllHandler.handle" -> CatchAllHandler_handle(ex)
          [] h = "DoesNotExistHandler.handle" -> DoesNotExistHandler_handle(ex)
          [] OTHER -> ex

\* falcon's _compose_error_response: the error's status and headers, and its
\* body through the error serializer when it has a representation.
compose_error_response(req, response, ex) ==
    LET r == [response EXCEPT !.status = ex.status,
                              !.www_authenticate = ex.challenges]
    IN  IF has_representation(ex) THEN error_serialiser(req, r, ex) ELSE r

----------------------------------------------------------------------------
\* Data model

\* User rows (display names).
Users == {"u1", "u2"}

\* Problem rows: name |-> points.
Problems == [A |-> 10, B |-> 20]

\* Solution rows: user and problem foreign keys, solved (default False) and
\* last_attempt.  The model declares no unique index over (user, problem).
SolutionRows ==
    [user : Users, problem : DOMAIN Problems, solved : BOOLEAN,
     last_attempt : {"h1"}]

\* sum([x.problem.points for x in rows])
RECURSIVE sum_points(_)
sum_points(rows) ==
    IF rows = {} THEN 0
    ELSE LET x == CHOOSE x \in rows : TRUE
         IN  Problems[x.problem] + sum_points(rows \ {x})

\* self.solutions: the back-reference of Solution.user.
user_solutions(table, user) == { x \in table : x.user = user }

\* User.get_points
get_points(table, user) == sum_points(user_solutions(table, user))

NoScore == [user |-> None, points |-> 0]

----------------------------------------------------------------------------
\* State

VARIABLES
    middleware,   \* the application's middleware list (WebApi's argument)
    pc,           \* per thread: where its request is in falcon's __call__
    idx,          \* per thread: the next component of the process_request loop
    request,      \* per thread: the request being served
    response,     \* per thread: the response being built
    stack,        \* per thread: process_response methods queued to run
    raised,       \* per thread: the exception raised during dispatch
    error,        \* per thread: the exception the error handler raised for it
    responder,    \* per thread: the responder routing selected and called
    log,          \* per thread: what has run for this request, in order
    closed,       \* per thread: database._local.closed
    conn,         \* per thread: database._local.conn (a connection key)
    in_use,       \* the pool's _in_use: keys leased to the threads above
    peerLeases,   \* leases held by requests of the server's other threads
    solutions,    \* the rows of the Solution table
    score         \* the user and the result of the last get_points call

vars == <<middleware, pc, idx, request, response, stack, raised, error,
          responder, log, closed, conn, in_use, peerLeases, solutions, score>>

ConnKeys == 1..NumThreads

\* The smallest element of a non-empty set of numbers.
Min(S) == CHOOSE x \in S : \A y \in S : x <= y

\* The check of process_response with its sense inverted.
is_closed_inverted(t) == ~closed[t]

\* database.is_closed() on thread t
\* process_response without its is_closed test: close() every time.
is_closed_never(t) == FALSE

is_closed(t) == closed[t]

\* The pool's limit test off by one: > for >=.
pool_exhausted_off_by_one == Cardinality(in_use) + peerLeases > max_connections

\* len(self._in_use) >= self.max_connections, over every thread of the server
pool_exhausted == Cardinality(in_use) + peerLeases >= max_connections

\* connect() handing every thread the same connection (state that is not
\* thread-local).
database_connect_shared(t) ==
    IF pool_exhausted
    THEN [ex |-> PythonError("ValueError", "Exceeded maximum connections."),
          conn |-> None]
    ELSE [ex |-> NoException, conn |-> Min(ConnKeys)]

\* database.connect() on thread t: the exception it raises, or the key of the
\* connection leased (one that is not in use: taken from the pool's idle
\* connections or newly opened).
database_connect(t) ==
    IF ~closed[t]
    THEN [ex |-> PythonError("OperationalError", "Connection already open"),
          conn |-> None]
    ELSE IF pool_exhausted
    THEN [ex |-> PythonError("ValueError", "Exceeded maximum connections."),
          conn |-> None]
    ELSE [ex |-> NoException, conn |-> Min(ConnKeys \ in_use)]

Init ==
    /\ middleware \in MiddlewareChoices
    /\ pc = [t \in Threads |-> "idle"]
    /\ idx = [t \in Threads |-> 1]
    /\ request = [t \in Threads |-> NoRequest]
    /\ response = [t \in Threads |-> NewResponse]
    /\ stack = [t \in Threads |-> <<>>]
    /\ raised = [t \in Threads |-> NoException]
    /\ error = [t \in Threads |-> NoException]
    /\ responder = [t \in Threads |-> None]
    /\ log = [t \in Threads |-> <<>>]
    /\ closed = [t \in Threads |-> TRUE]
    /\ conn = [t \in Threads |-> None]
    /\ in_use = {}
    /\ peerLeases = 0
    /\ solutions = {}
    /\ score = NoScore

----------------------------------------------------------------------------
\* Steps of a request on thread t

\* A request arrives: req and resp are created, the stack is empty.
Receive(t, R) ==
    /\ pc[t] = "idle"
    /\ \E r \in R : request' = [request EXCEPT ![t] = r]
    /\ pc' = [pc EXCEPT ![t] = "process_request"]
    /\ UNCHANGED <<middleware, idx, response, stack, raised, error, responder,
                   log, closed, conn, in_use, peerLeases>>

\* The process_request loop has reached component c.
AtRequestComponent(t, c) ==
    /\ pc[t] = "process_request"
    /\ idx[t] <= Len(middleware)
    /\ middleware[idx[t]] = c

\* The component's process_request returned: its process_response, when it
\* has one, is queued for the response phase.
Entered(t) ==
    /\ stack' = [stack EXCEPT ![t] =
                    IF has_process_response(middleware[idx[t]])
                    THEN Append(@, middleware[idx[t]]) ELSE @]
    /\ idx' = [idx EXCEPT ![t] = @ + 1]
    /\ UNCHANGED <<pc, raised>>

\* Something raised ex: the rest of the try block is skipped.
Raise(t, ex) ==
    /\ raised' = [raised EXCEPT ![t] = ex]
    /\ pc' = [pc EXCEPT ![t] = "handle_exception"]

\* PeeweeConnectionMiddleware.process_request: database.connect()
PeeweeConnectionMiddleware_process_request(t) ==
    /\ AtRequestComponent(t, Peewee)
    /\ LET r == database_connect(t)
       IN  IF r.ex = NoException
           THEN /\ closed' = [closed EXCEPT ![t] = FALSE]
                /\ conn' = [conn EXCEPT ![t] = r.conn]
                /\ in_use' = in_use \cup {r.conn}
                /\ log' = [log EXCEPT ![t] = Append(@, "connect")]
                /\ Entered(t)
           ELSE /\ Raise(t, r.ex)
                /\ UNCHANGED <<closed, conn, in_use, log, stack, idx>>
    /\ UNCHANGED <<middleware, request, response, error, responder, peerLeases>>

\* AuthMiddleware.process_request
AuthMiddleware_check(t) ==
    /\ AtRequestComponent(t, Auth)
    /\ LET ex == AuthMiddleware_process_request(request[t])
       IN  IF ex = NoException
           THEN Entered(t)
           ELSE /\ Raise(t, ex)
                /\ UNCHANGED <<stack, idx>>
    /\ log' = [log EXCEPT ![t] = Append(@, "auth")]
    /\ UNCHANGED <<middleware, request, response, error, responder, closed,
                   conn, in_use, peerLeases>>

\* A component without a process_request method is passed over.
NoProcessRequest(t) ==
    /\ pc[t] = "process_request"
    /\ idx[t] <= Len(middleware)
    /\ ~has_process_request(middleware[idx[t]])
    /\ Entered(t)
    /\ UNCHANGED <<middleware, request, response, error, responder, log,
                   closed, conn, in_use, peerLeases>>

\* Routing and the responder: responder(req, resp, **params)
Dispatch(t) ==
    /\ pc[t] = "process_request"
    /\ idx[t] > Len(middleware)
    /\ LET name == get_responder(request[t].method, request[t].path)
           r == call_responder(name, request[t], response[t])
       IN  /\ responder' = [responder EXCEPT ![t] = name]
           /\ response' = [response EXCEPT ![t] = r.response]
           /\ log' = [log EXCEPT ![t] =
                         IF name \in ResourceResponders THEN Append(@, "responder")
                         ELSE @]
           /\ IF r.ex = NoException
              THEN /\ pc' = [pc EXCEPT ![t] = "process_response"]
                   /\ UNCHANGED raised
              ELSE Raise(t, r.ex)
    /\ UNCHANGED <<middleware, idx, request, stack, error, closed, conn,
                   in_use, peerLeases>>

\* except Exception: the first matching error handler runs and raises; the
\* HTTPError it raises is composed into the response.
HandleException(t) ==
    /\ pc[t] = "handle_exception"
    /\ LET e == handle_exception(raised[t])
       IN  /\ error' = [error EXCEPT ![t] = e]
           /\ response' = [response EXCEPT ![t] = compose_error_response(request[t], @, e)]
    /\ log' = [log EXCEPT ![t] = Append(@, "translate")]
    /\ pc' = [pc EXCEPT ![t] = "process_response"]
    /\ UNCHANGED <<middleware, idx, request, stack, raised, responder, closed,
                   conn, in_use, peerLeases>>

\* _call_resp_mw pops component c.
AtResponseComponent(t, c) ==
    /\ pc[t] = "process_response"
    /\ stack[t] # <<>>
    /\ stack[t][Len(stack[t])] = c

Pop(t) == stack' = [stack EXCEPT ![t] = SubSeq(@, 1, Len(@) - 1)]

\* PeeweeConnectionMiddleware.process_response:
\* if not database.is_closed(): database.close()
PeeweeConnectionMiddleware_process_response(t) ==
    /\ AtResponseComponent(t, Peewee)
    /\ Pop(t)
    /\ IF ~is_closed(t)
       THEN /\ closed' = [closed EXCEPT ![t] = TRUE]
            /\ in_use' = in_use \ {conn[t]}
            /\ log' = [log EXCEPT ![t] = Append(@, "close")]
       ELSE UNCHANGED <<closed, in_use, log>>
    /\ UNCHANGED <<middleware, pc, idx, request, response, raised, error,
                   responder, conn, peerLeases>>

\* ResponseFormatMiddleware.process_response
ResponseFormatMiddleware_serialize(t) ==
    /\ AtResponseComponent(t, Format)
    /\ Pop(t)
    /\ response' = [response EXCEPT ![t] = ResponseFormatMiddleware_process_response(@)]
    /\ log' = [log EXCEPT ![t] = Append(@, "serialize")]
    /\ UNCHANGED <<middleware, pc, idx, request, raised, error, responder,
                   closed, conn, in_use, peerLeases>>

\* The stack is empty: the response goes to the client.
Send(t) ==
    /\ pc[t] = "process_response"
    /\ stack[t] = <<>>
    /\ pc' = [pc EXCEPT ![t] = "done"]
    /\ UNCHANGED <<middleware, idx, request, response, stack, raised, error,
                   responder, log, closed, conn, in_use, peerLeases>>

\* __call__ returns: req, resp and the stack are gone, the thread is free.
\* The thread's database state stays as the request left it.
Finish(t) ==
    /\ pc[t] = "done"
    /\ pc' = [pc EXCEPT ![t] = "idle"]
    /\ idx' = [idx EXCEPT ![t] = 1]
    /\ request' = [request EXCEPT ![t] = NoRequest]
    /\ response' = [response EXCEPT ![t] = NewResponse]
    /\ raised' = [raised EXCEPT ![t] = NoException]
    /\ error' = [error EXCEPT ![t] = NoException]
    /\ responder' = [responder EXCEPT ![t] = None]
    /\ log' = [log EXCEPT ![t] = <<>>]
    /\ UNCHANGED <<middleware, stack, closed, conn, in_use, peerLeases>>

\* A request of another thread of the server takes a lease from the pool ...
PeerAcquire ==
    /\ ~pool_exhausted
    /\ peerLeases' = peerLeases + 1
    /\ UNCHANGED <<middleware, pc, idx, request, response, stack, raised,
                   error, responder, log, closed, conn, in_use, solutions,
                   score>>

\* ... and gives it back when that request ends.
PeerRelease ==
    /\ peerLeases > 0
    /\ peerLeases' = peerLeases - 1
    /\ UNCHANGED <<middleware, pc, idx, request, response, stack, raised,
                   error, responder, log, closed, conn, in_use, solutions,
                   score>>

\* No step of the pipeline writes the Solution table: the responders return
\* literals (ProblemResource.on_post included) and call no model method.
Step(t, R) ==
    /\ \/ Receive(t, R)
       \/ PeeweeConnectionMiddleware_process_request(t)
       \/ AuthMiddleware_check(t)
       \/ NoProcessRequest(t)
       \/ Dispatch(t)
       \/ HandleException(t)
       \/ PeeweeConnectionMiddleware_process_response(t)
       \/ ResponseFormatMiddleware_serialize(t)
       \/ Send(t)
       \/ Finish(t)
    /\ UNCHANGED <<solutions, score>>

\* One worker (werkzeug's run_simple serves one request at a time) beside
\* the leases of the other threads; every request of Requests.
Next ==
    \/ Step(1, Requests)
    \/ PeerAcquire
    \/ PeerRelease

Spec == Init /\ [][Next]_vars

\* Several workers of a threaded server, each followed step by step, on the
\* requests of ConcRequests.
NextConc == \E t \in Threads : Step(t, ConcRequests)

SpecConc == Init /\ [][NextConc]_vars

\* Dispatch handed a fault: thread 1 is in the except clause of __call__ with
\* an exception raised before any component's process_request had returned.
\* The exceptions are those the pipeline raises and peewee's DoesNotExist,
\* which no responder of this application raises by itself.
RaisedInputs ==
    { PythonError("DoesNotExist", "Instance matching query does not exist"),
      PythonError("KeyError", "'id'"),
      PythonError("ValueError", "Exceeded maximum connections."),
      HTTPNotFound,
      HTTPMethodNotAllowed,
      AuthMiddleware_process_request(NoRequest) }

InitFault ==
    /\ middleware \in MiddlewareChoices
    /\ pc = [t \in Threads |-> IF t = 1 THEN "handle_exception" ELSE "idle"]
    /\ idx = [t \in Threads |-> 1]
    /\ \E r \in Requests : request = [t \in Threads |-> IF t = 1 THEN r ELSE NoRequest]
    /\ response = [t \in Threads |-> NewResponse]
    /\ stack = [t \in Threads |-> <<>>]
    /\ \E ex \in RaisedInputs :
          raised = [t \in Threads |-> IF t = 1 THEN ex ELSE NoException]
    /\ error = [t \in Threads |-> NoException]
    /\ responder = [t \in Threads |-> None]
    /\ log = [t \in Threads |-> <<>>]
    /\ closed = [t \in Threads |-> TRUE]
    /\ conn = [t \in Threads |-> None]
    /\ in_use = {}
    /\ peerLeases = 0
    /\ solutions = {}
    /\ score = NoScore

SpecFault == InitFault /\ [][Next]_vars

\* Two workers on the requests of PairRequests.
NextPair == \E t \in {1, 2} : Step(t, PairRequests)

SpecPair == Init /\ [][NextPair]_vars

\* A release handed a connection in either state: thread 1 is past dispatch
\* with the connection component's process_response queued, and the
\* connection it opened is still open or was closed since (a responder that
\* closed it, a connection the server dropped).
InitRelease ==
    /\ middleware \in MiddlewareChoices
    /\ pc = [t \in Threads |-> IF t = 1 THEN "process_response" ELSE "idle"]
    /\ idx = [t \in Threads |-> 1]
    /\ \E r \in PairRequests : request = [t \in Threads |-> IF t = 1 THEN r ELSE NoRequest]
    /\ response = [t \in Threads |-> NewResponse]
    /\ \E s \in {<<Peewee>>, <<Peewee, Format>>} :
          stack = [t \in Threads |-> IF t = 1 THEN s ELSE <<>>]
    /\ raised = [t \in Threads |-> NoException]
    /\ error = [t \in Threads |-> NoException]
    /\ responder = [t \in Threads |-> None]
    /\ log = [t \in Threads |-> IF t = 1 THEN <<"connect">> ELSE <<>>]
    /\ \E c \in BOOLEAN :
          /\ closed = [t \in Threads |-> IF t = 1 THEN c ELSE TRUE]
          /\ in_use = IF c THEN {} ELSE {Min(ConnKeys)}
    /\ conn = [t \in Threads |-> IF t = 1 THEN Min(ConnKeys) ELSE None]
    /\ peerLeases = 0
    /\ solutions = {}
    /\ score = NoScore

SpecRelease == InitRelease /\ [][Next]_vars

\* user.get_points() on the rows of the table.
GetPoints(user) ==
    /\ score' = [user |-> user, points |-> get_points(solutions, user)]
    /\ UNCHANGED <<middleware, pc, idx, request, response, stack, raised,
                   error, responder, log, closed, conn, in_use, peerLeases,
                   solutions>>

\* The data model on every content of the Solution table.
InitData ==
    /\ middleware = ConfiguredMiddleware
    /\ pc = [t \in Threads |-> "idle"]
    /\ idx = [t \in Threads |-> 1]
    /\ request = [t \in Threads |-> NoRequest]
    /\ response = [t \in Threads |-> NewResponse]
    /\ stack = [t \in Threads |-> <<>>]
    /\ raised = [t \in Threads |-> NoException]
    /\ error = [t \in Threads |-> NoException]
    /\ responder = [t \in Threads |-> None]
    /\ log = [t \in Threads |-> <<>>]
    /\ closed = [t \in Threads |-> TRUE]
    /\ conn = [t \in Threads |-> None]
    /\ in_use = {}
    /\ peerLeases = 0
    /\ solutions \in SUBSET SolutionRows
    /\ score = NoScore

NextData == \E user \in Users : GetPoints(user)

SpecData == InitData /\ [][NextData]_vars

----------------------------------------------------------------------------
\* Vocabulary of the properties

Done(t) == pc[t] = "done"

\* How many times step e ran for the request on thread t.
Count(t, e) == Cardinality({i \in 1..Len(log[t]) : log[t][i] = e})

Ran(t, e) == Count(t, e) > 0

Configured == middleware = ConfiguredMiddleware

\* A resource's own responder was called.
HandlerInvoked(t) == responder[t] \in ResourceResponders

\* A header that is present with a non-empty value.
NonEmpty(v) == v \notin {None, ""}

\* The response is the 401 of the given title, with the challenge and the
\* documentation link.
Unauthorized(t, title) ==
    /\ response[t].status = 401
    /\ response[t].www_authenticate = challenges
    /\ response[t].body.doc.type = "error"
    /\ response[t].body.doc.text = title
    /\ response[t].body.doc.href = auth_href

AuthTokenRequired(t) == Unauthorized(t, "Auth token required")

AuthenticationFailed(t) == Unauthorized(t, "Authentication required")

InternalServerError(t) ==
    /\ response[t].status = 500
    /\ response[t].body.doc.type = "error"
    /\ response[t].body.doc.text = "Internal server error."
    /\ response[t].body.doc.description =
          "An internal error occurred. If this problem persists, please contact us."

\* The response is the NotFound fault.
NotFound(t) == response[t].status = 404 /\ error[t] = HTTPNotFound

----------------------------------------------------------------------------
\* C1: every request releases the connection it acquired exactly once by the
\* end of its pipeline, whatever its outcome (success, auth rejection,
\* handler fault); over concurrent requests the acquisitions and releases
\* balance: the pool's leases are exactly the connections of the requests
\* still between acquire and release, and none is left when no request is
\* in flight.
C1_AcquireReleaseBalanced ==
    /\ \A t \in Threads :
          /\ Count(t, "connect") <= 1
          /\ Count(t, "close") <= Count(t, "connect")
          /\ Done(t) => Count(t, "close") = Count(t, "connect") /\ closed[t]
    /\ in_use = {conn[t] : t \in {u \in Threads : ~closed[u]}}
    /\ (\A t \in Threads : pc[t] \in {"idle", "done"}) => in_use = {}

\* Every worker of the configured application has finished a request that
\* acquired a connection, was rejected by the auth gate and released it.
C1_Witness ==
    /\ Configured
    /\ \A t \in Threads :
          /\ Done(t)
          /\ Count(t, "connect") = 1
          /\ Count(t, "close") = 1
          /\ response[t].status = 401

\* C2 as stated: in the configured application every request with a
\* non-empty Authorization header gets the AuthTokenRequired 401 with the
\* challenge and the link, and no handler runs.
C2_TokenAlwaysRejected ==
    \A t \in Threads :
        (Configured /\ Done(t) /\ NonEmpty(request[t].Authorization))
            => AuthTokenRequired(t) /\ ~HandlerInvoked(t)

\* C2 amended: the same for every such request whose connection was acquired
\* (the connection step comes first and ends the request when it fails).
C2_TokenRejectedOnceConnected ==
    \A t \in Threads :
        (Configured /\ Done(t) /\ NonEmpty(request[t].Authorization)
            /\ Ran(t, "connect"))
            => /\ AuthTokenRequired(t)
               /\ response[t].body = to_json(raised[t])
               /\ ~HandlerInvoked(t)
               /\ responder[t] = None

C2_Witness ==
    \E t \in Threads :
        /\ Configured /\ Done(t)
        /\ request[t].Authorization = "abc" /\ request[t].Account_Id = "1"
        /\ request[t].method = "POST" /\ request[t].path = "/login"
        /\ AuthTokenRequired(t)

\* C3 as stated: GET / with no headers through the configured application
\* gives 200 and the greeting.
C3_RootGreeting ==
    \A t \in Threads :
        (Configured /\ Done(t) /\ request[t].method = "GET" /\ request[t].path = "/"
            /\ request[t].Authorization = None /\ request[t].Account_Id = None)
            => /\ response[t].status = 200
               /\ response[t].body.doc = StrDoc("Hello, World!")

\* C3 amended: through the configured application GET / with no headers is
\* rejected by the auth gate (401 "Authentication required") once its
\* connection is acquired, and RootResource.on_get is not called; through
\* the application without the auth component it gives 200 and the greeting
\* as JSON text.
C3_RootBehindAuthGate ==
    \A t \in Threads :
        (Done(t) /\ request[t].method = "GET" /\ request[t].path = "/"
            /\ request[t].Authorization = None /\ request[t].Account_Id = None
            /\ Ran(t, "connect"))
            => IF Configured
               THEN AuthenticationFailed(t) /\ ~HandlerInvoked(t)
               ELSE /\ responder[t] = "RootResource.on_get"
                    /\ response[t].status = 200
                    /\ response[t].body = json_dumps([doc |-> StrDoc("Hello, World!"), enc |-> 0])

C3_Witness ==
    \E t \in Threads :
        /\ Configured /\ Done(t)
        /\ request[t].method = "GET" /\ request[t].path = "/"
        /\ request[t].Authorization = None /\ request[t].Account_Id = None
        /\ AuthenticationFailed(t)

\* The claim's validity of a token/account pair: both non-empty.
PairValid(r) == NonEmpty(r.Authorization) /\ NonEmpty(r.Account_Id)

\* C4 as stated: in the configured application every request without an
\* Authorization header and without a valid pair gets AuthenticationFailed
\* and no handler; no request with a valid pair gets AuthenticationFailed.
C4_AbsentTokenAlwaysFails ==
    \A t \in Threads :
        (Configured /\ Done(t))
            => /\ (request[t].Authorization = None /\ ~PairValid(request[t]))
                    => AuthenticationFailed(t) /\ ~HandlerInvoked(t)
               /\ AuthenticationFailed(t) => ~PairValid(request[t])

\* C4 amended: the same for every such request whose connection was
\* acquired.
C4_AbsentTokenFailsOnceConnected ==
    \A t \in Threads :
        (Configured /\ Done(t))
            => /\ (request[t].Authorization = None /\ ~PairValid(request[t])
                    /\ Ran(t, "connect"))
                    => /\ AuthenticationFailed(t)
                       /\ ~HandlerInvoked(t)
                       /\ responder[t] = None
               /\ AuthenticationFailed(t) => ~PairValid(request[t])

C4_Witness ==
    \E t \in Threads :
        /\ Configured /\ Done(t)
        /\ request[t].Authorization = None /\ request[t].Account_Id = "1"
        /\ AuthenticationFailed(t)

\* The path has no registered route.
Unrouted(r) == r.path # None /\ r.path \notin DOMAIN register_routes

\* C5 as stated: in the configured application every request whose path has
\* no route gets NotFound (404) and no handler.
C5_UnroutedIsNotFound ==
    \A t \in Threads :
        (Configured /\ Done(t) /\ Unrouted(request[t]))
            => NotFound(t) /\ ~HandlerInvoked(t)

\* C5 amended: for a request whose path has no route no handler is called,
\* and the response is NotFound (404) whenever the request gets as far as
\* routing; in the configured application it never does: the process_request
\* components run before routing and the response is the auth gate's 401, or
\* the 500 of a failed connection.
C5_UnroutedNoHandler ==
    \A t \in Threads :
        (Done(t) /\ Unrouted(request[t]))
            => /\ ~HandlerInvoked(t)
               /\ responder[t] # None => responder[t] = "path_not_found" /\ NotFound(t)
               /\ Configured => /\ responder[t] = None
                                /\ IF Ran(t, "connect")
                                   THEN response[t].status = 401
                                   ELSE response[t].status = 500

\* A request for an unrouted path got as far as routing and ended NotFound.
C5_Witness ==
    \E t \in Threads :
        /\ Done(t) /\ request[t].path = "/missing"
        /\ responder[t] = "path_not_found"
        /\ NotFound(t)

\* The route table the interface description gives: (method, path, responder).
ExternalRouteTable ==
    { <<"GET", "/", "RootResource.on_get">>,
      <<"GET", "/login", "LoginResource.on_get">>,
      <<"POST", "/login", "LoginResource.on_post">>,
      <<"GET", "/logout", "LogoutResource.on_get">>,
      <<"GET", "/problems", "ProblemCollection.on_get">>,
      <<"GET", "/problem", "ProblemResource.on_get">>,
      <<"POST", "/problem", "ProblemResource.on_post">>,
      <<"GET", "/competitors", "UserCollection.on_get">>,
      <<"GET", "/competitor", "UserResource.on_get">> }

\* C6 as stated: every (method, path) of the interface's route table is
\* registered, so a request that gets as far as routing is handed to the
\* table's responder; GET /logout goes to LogoutResource.on_get.
C6_RouteTableRegistered ==
    \A t \in Threads :
        (pc[t] \in {"process_response", "done"} /\ responder[t] # None)
            => \A e \in ExternalRouteTable :
                  (e[1] = request[t].method /\ e[2] = request[t].path)
                      => responder[t] = e[3]

\* The request on thread t failed to get a connection from the full pool.
PoolExhaustedFor(t) ==
    raised[t] = PythonError("ValueError", "Exceeded maximum connections.")

Before(t, a, b) ==
    \E i, j \in 1..Len(log[t]) : i < j /\ log[t][i] = a /\ log[t][j] = b

\* C8 as stated: when a handler faults the formatter's process_response does
\* not run, the connection is released before the fault is translated, and
\* the error body is JSON-encoded once only.
C8_FormatterOnlyOnSuccess ==
    \A t \in Threads :
        (Done(t) /\ HandlerInvoked(t) /\ raised[t] # NoException)
            => /\ ~Ran(t, "serialize")
               /\ Before(t, "close", "translate")
               /\ response[t].body.enc <= 1

\* C9: a fault other than a lookup miss reaches the client as itself when it
\* is an HTTP error (the handler re-raises the same exception; the response
\* has its status, and its own representation as the body), and as the fixed
\* InternalServerError otherwise, with nothing of the original's message in
\* the response.  In the configured application the body is exactly the
\* error serialiser's output.
C9_FaultTranslation ==
    \A t \in Threads :
        (Done(t) /\ raised[t] # NoException /\ raised[t].kind # "DoesNotExist")
            => IF IsHTTPError(raised[t])
               THEN /\ error[t] = raised[t]
                    /\ response[t].status = raised[t].status
                    /\ response[t].body.doc =
                          IF has_representation(raised[t])
                          THEN to_json(raised[t]).doc ELSE NoDoc
                    /\ Configured =>
                          response[t].body =
                             IF has_representation(raised[t])
                             THEN to_json(raised[t]) ELSE NoBody
               ELSE /\ InternalServerError(t)
                    /\ error[t].kind = "HTTPInternalServerError"
                    /\ response[t].body.doc.href = ""
                    /\ raised[t].description \notin
                          {response[t].body.doc.text, response[t].body.doc.description}
                    /\ Configured => response[t].body = to_json(error[t])

\* A request ended with its handler's KeyError masked as InternalServerError.
C9_Witness ==
    \E t \in Threads :
        /\ Done(t)
        /\ responder[t] = "UserResource.on_get"
        /\ raised[t].kind = "KeyError"
        /\ InternalServerError(t)

\* C10: a lookup miss (DoesNotExist) is always handled by the lookup-miss
\* handler, not by the catch-all registered for Exception: the response is
\* NotFound (404), never InternalServerError.
C10_LookupMissIsNotFound ==
    \A t \in Threads :
        (pc[t] \in {"process_response", "done"} /\ raised[t].kind = "DoesNotExist")
            => /\ error[t] = HTTPNotFound
               /\ response[t].status = 404
               /\ find_error_handler(register_error_handlers, raised[t])
                     = "DoesNotExistHandler.handle"

C10_Witness ==
    \E t \in Threads :
        /\ Configured /\ Done(t)
        /\ raised[t].kind = "DoesNotExist"
        /\ NotFound(t)

\* The path has a route whose resource lacks the request's method.
MethodMissing(r) ==
    /\ r.path \in DOMAIN register_routes
    /\ r.method \notin ResourceMethods[register_routes[r.path]]

\* C11 as stated: in the configured application a request for a routed path
\* and a method the resource does not implement gets MethodNotAllowed (405),
\* and no handler method is called.
C11_MethodMissingIs405 ==
    \A t \in Threads :
        (Configured /\ Done(t) /\ MethodMissing(request[t]))
            => response[t].status = 405 /\ ~HandlerInvoked(t)

\* C11 amended: for such a request no handler method is called, and the
\* response is MethodNotAllowed (405) whenever the request gets as far as
\* routing; in the configured application it never does, and the response is
\* the auth gate's 401, or the 500 of a failed connection.
C11_MethodMissingNoHandler ==
    \A t \in Threads :
        (Done(t) /\ MethodMissing(request[t]))
            => /\ ~HandlerInvoked(t)
               /\ responder[t] # None =>
                     /\ responder[t] = "method_not_allowed"
                     /\ response[t].status = 405
                     /\ error[t] = HTTPMethodNotAllowed
               /\ Configured => /\ responder[t] = None
                                /\ IF Ran(t, "connect")
                                   THEN response[t].status = 401
                                   ELSE response[t].status = 500

\* POST /problems got as far as routing and ended MethodNotAllowed.
C11_Witness ==
    \E t \in Threads :
        /\ Done(t)
        /\ request[t].method = "POST" /\ request[t].path = "/problems"
        /\ responder[t] = "method_not_allowed"
        /\ response[t].status = 405

\* The request on thread t is between its connect and its close.
HoldsConnection(t) ==
    pc[t] # "idle" /\ Ran(t, "connect") /\ ~Ran(t, "close")

\* C12: a request that holds a connection is the only one to hold it: the
\* connection stays open and leased until that request's own release (no
\* other request's release closes it, and is_closed of another request does
\* not see it), and no two requests in flight hold the same connection.
C12_ConnectionRequestLocal ==
    \A t \in Threads :
        HoldsConnection(t)
            => /\ ~closed[t]
               /\ conn[t] \in in_use
               /\ \A u \in Threads \ {t} :
                     /\ HoldsConnection(u) => conn[u] # conn[t]
                     /\ (pc[u] \in {"process_response", "done"} /\ Ran(u, "connect")
                            /\ stack[u] = <<>>) => closed[u]

\* One request has released its connection while another, interleaved with
\* it, still holds its own.
C12_Witness ==
    \E t, u \in Threads :
        /\ t # u
        /\ Configured
        /\ Ran(t, "connect") /\ Ran(t, "close") /\ closed[t]
        /\ HoldsConnection(u) /\ Ran(u, "translate")
        /\ conn[u] \in in_use

\* The points of the problems the user has solved.
PointsOfSolved(table, user) ==
    sum_points({ x \in user_solutions(table, user) : x.solved })

\* C13 as stated: get_points is the sum of problem.points over the user's
\* solutions with solved = true ({(A,10,true), (B,20,false)} gives 10).
C13_PointsOverSolved ==
    score.user # None
        => score.points = PointsOfSolved(solutions, score.user)

\* The two requests differ in their Accept header at most.
SameButAccept(r1, r2) == r1 = [r2 EXCEPT !.Accept = r1.Accept]

\* C14: a fault that has a representation reaches the body through
\* error_serialiser as the JSON of its title, description and link, whatever
\* the Accept header: two requests that differ only in Accept and end in the
\* same fault get identical bodies (and content types).
C14_FaultBodyIgnoresAccept ==
    /\ \A t \in Threads :
          (Done(t) /\ error[t] # NoException /\ has_representation(error[t]))
              => response[t].body.doc = to_json(error[t]).doc
    /\ \A t, u \in Threads :
          (Done(t) /\ Done(u) /\ SameButAccept(request[t], request[u])
              /\ error[t] # NoException /\ error[t] = error[u])
              => /\ response[t].body = response[u].body
                 /\ response[t].content_type = response[u].content_type

\* Two requests, one asking for XML and one with no Accept header, ended in
\* the same fault with the same JSON body.
C14_Witness ==
    \E t, u \in Threads :
        /\ Done(t) /\ Done(u)
        /\ SameButAccept(request[t], request[u])
        /\ request[t].Accept = "application/xml" /\ request[u].Accept = None
        /\ error[t] # NoException /\ error[t] = error[u]
        /\ response[t].body = response[u].body
        /\ response[t].body.doc.type = "error"

\* C15 as stated: recording an attempt leaves exactly one Solution row for
\* the (user, problem) pair (the latest attempt's), so once POST /problem has
\* succeeded the table holds one row of some pair.
C15_AttemptLeavesOneRow ==
    \A t \in Threads :
        (Done(t) /\ responder[t] = "ProblemResource.on_post"
            /\ raised[t] = NoException)
            => \E user \in Users, problem \in DOMAIN Problems :
                  Cardinality({ x \in solutions :
                                  x.user = user /\ x.problem = problem }) = 1

\* The request on thread t ended on the success path of a handler.
Succeeded(t) == Done(t) /\ HandlerInvoked(t) /\ raised[t] = NoException

\* C16 as stated: on the success path the connection is released before the
\* response is serialised.
C16_ReleaseBeforeSerialize ==
    \A t \in Threads : Succeeded(t) => Before(t, "close", "serialize")

\* C16 amended: on the success path the post-phase runs in the reverse of
\* the declared order: the response is serialised first and the connection
\* released after it.
C16_SerializeBeforeRelease ==
    \A t \in Threads :
        /\ Succeeded(t)
              => /\ Count(t, "serialize") = 1 /\ Count(t, "close") = 1
                 /\ Before(t, "serialize", "close")
        /\ (Ran(t, "serialize") /\ Ran(t, "close"))
              => Before(t, "serialize", "close")

\* A handler returned, its response was serialised and then its connection
\* was released.
C16_Witness ==
    \E t \in Threads :
        /\ Succeeded(t)
        /\ Before(t, "responder", "serialize")
        /\ Before(t, "serialize", "close")

\* The request on thread t faulted before routing (in a process_request).
PrePhaseFault(t) == raised[t] # NoException /\ responder[t] = None

C18_ReleaseIdempotent ==
    [][\A t \in Threads :
          (AtResponseComponent(t, Peewee) /\ closed[t] /\ stack'[t] # stack[t])
              => /\ closed' = closed
                 /\ conn' = conn
                 /\ in_use' = in_use
                 /\ log'[t] = log[t]
                 /\ raised' = raised
                 /\ pc'[t] = "process_response"]_vars

\* A request whose connection was already closed when its release ran is
\* done: one connect, no close, no fault.
C18_Witness ==
    \E t \in Threads :
        /\ Done(t)
        /\ Ran(t, "connect") /\ ~Ran(t, "close")
        /\ closed[t]
        /\ raised[t] = NoException

\* C19: in the configured application the auth check raises for every
\* combination of headers: no request gets past it to routing, no handler is
\* called, and no response has a 2xx status (401, or the 500 of a failed
\* connection).
C19_NothingPassesAuth ==
    Configured =>
        \A t \in Threads :
            /\ responder[t] = None
            /\ ~HandlerInvoked(t)
            /\ Ran(t, "auth") => raised[t].kind = "HTTPUnauthorized"
            /\ Done(t) => /\ response[t].status \in {401, 500}
                          /\ response[t].status \notin 200..299

\* A request with both headers present and non-empty was rejected with 401.
C19_Witness ==
    \E t \in Threads :
        /\ Configured /\ Done(t)
        /\ request[t].Authorization = "abc" /\ request[t].Account_Id = "1"
        /\ Ran(t, "auth")
        /\ response[t].status = 401

\* The two requests differ in their Account-Id header at most.
SameButAccountId(r1, r2) == r1 = [r2 EXCEPT !.Account_Id = r1.Account_Id]

\* C20: the auth outcome depends on the presence of Authorization only: two
\* requests that differ only in Account-Id get the same fault from the auth
\* check (kind, title, status) and the same response status.
C20_AuthIgnoresAccountId ==
    \A t, u \in Threads :
        (Ran(t, "auth") /\ Ran(u, "auth")
            /\ SameButAccountId(request[t], request[u]))
            => /\ raised[t] = raised[u]
               /\ raised[t].title = IF request[t].Authorization # None
                                    THEN "Auth token required"
                                    ELSE "Authentication required"
               /\ (Done(t) /\ Done(u))
                     => /\ error[t] = error[u]
                        /\ response[t].status = response[u].status

\* Two requests, one with an Account-Id and one without, were rejected with
\* the same fault.
C20_Witness ==
    \E t, u \in Threads :
        /\ Done(t) /\ Done(u)
        /\ SameButAccountId(request[t], request[u])
        /\ request[t].Account_Id = "1" /\ request[u].Account_Id = None
        /\ raised[t].kind = "HTTPUnauthorized"
        /\ raised[t] = raised[u]
        /\ response[t].status = 401 /\ response[u].status = 401

====
